---- MODULE Spec2Model ----
(***************************************************************************)
(* Model of src/utils.rs, the conversion layer between the reth types and  *)
(* the ethers types.  Every conversion is a pure function; the state       *)
(* machine is one pending call: `op` names the conversion that ran, `arg`  *)
(* is its input and `res` is how the call ended (a returned value or a     *)
(* panic).                                                                 *)
(*                                                                         *)
(* Quantities are little-endian byte sequences of the width of their type  *)
(* (both ruint::Uint and the ethers uint types store little-endian limbs), *)
(* so 64-, 128- and 256-bit values keep their true width.  Addresses and   *)
(* hashes are byte sequences of 20 and 32 bytes.                           *)
(***************************************************************************)
EXTENDS Integers, Sequences, FiniteSets, TLC

VARIABLES pc, op, arg, res

vars == <<pc, op, arg, res>>

----------------------------------------------------------------------------
(* Option<T>, and the ways a call ends *)

None == [some |-> FALSE]

Some(v) == [some |-> TRUE, v |-> v]

Ok(v) == [kind |-> "ok", val |-> v]

Panic(why) == [kind |-> "panic", why |-> why]

Err(e) == [kind |-> "err", err |-> e]

IsOk(r) == r.kind = "ok"

IsPanic(r) == r.kind = "panic"

\* Option::map with a closure that may panic: r is the outcome of the closure
\* on o.v, and the closure runs only on Some
OptMap(o, r) ==
  IF ~o.some THEN Ok(None)
  ELSE IF IsOk(r) THEN Ok(Some(r.val)) ELSE r

\* Option::unwrap
Unwrap(o) ==
  IF o.some THEN Ok(o.v)
  ELSE Panic("called Option::unwrap() on a None value")

\* the first panic of a sequence of evaluated sub-expressions, in source order
RECURSIVE FirstPanic(_)
FirstPanic(rs) ==
  IF rs = <<>> THEN None
  ELSE IF IsPanic(Head(rs)) THEN Some(Head(rs))
  ELSE FirstPanic(Tail(rs))

----------------------------------------------------------------------------
(* Widths, in bytes *)

U8_BYTES == 1

U64_BYTES == 8

U128_BYTES == 16

U256_BYTES == 32

ADDRESS_BYTES == 20

H256_BYTES == 32

Zeros(n) == [i \in 1..n |-> 0]

Reverse(s) == [i \in 1..Len(s) |-> s[Len(s) + 1 - i]]

\* the numeric value of two little-endian quantities of any widths is equal
SameValue(a, b) ==
  LET n == IF Len(a) < Len(b) THEN Len(a) ELSE Len(b) IN
  /\ \A i \in 1..n : a[i] = b[i]
  /\ \A i \in (n + 1)..Len(a) : a[i] = 0
  /\ \A i \in (n + 1)..Len(b) : b[i] = 0

\* the value fits in n bytes
FitsIn(a, n) == \A i \in (n + 1)..Len(a) : a[i] = 0

----------------------------------------------------------------------------
(* The numeric primitives the conversions call *)

\* ruint Uint::to_le_bytes::<BYTES>() asserts BYTES == Self::BYTES; BYTES is
\* inferred from the `.into()` target, whose only array impl is
\* From<[u8; size of the target]>
to_le_bytes(self, BYTES) ==
  IF BYTES # Len(self) THEN Panic("BYTES must be equal to Self::BYTES")
  ELSE Ok(self)

\* uint From<[u8; n]>: the array is read as a big-endian number
from_bytes_array(bytes) == Reverse(bytes)

\* uint as_u64(): panics unless the value fits the low word
as_u64(self) ==
  IF ~FitsIn(self, U64_BYTES) THEN Panic("Integer overflow when casting to u64")
  ELSE Ok(SubSeq(self, 1, U64_BYTES))

\* From of a narrower unsigned integer: zero extension
zero_extend(w, BYTES) == w \o Zeros(BYTES - Len(w))

\* From<u64> for a uint of BYTES bytes
from_u64(w, BYTES) == zero_extend(w, BYTES)

\* `self.to_le_bytes().into()` into an ethers uint of BYTES bytes
le_bytes_into(self, BYTES) ==
  LET b == to_le_bytes(self, BYTES) IN
  IF IsPanic(b) THEN b ELSE Ok(from_bytes_array(b.val))

\* impl ToEthers<EthersU64> for U256
U256_into_EthersU64(self) == le_bytes_into(self, U64_BYTES)

\* impl ToEthers<EthersU64> for U8
U8_into_EthersU64(self) == le_bytes_into(self, U64_BYTES)

\* impl ToEthers<EthersU256> for U128
U128_into_EthersU256(self) == le_bytes_into(self, U256_BYTES)

\* impl ToEthers<EthersU256> for U64
U64_into_EthersU256(self) ==
  LET w == as_u64(self) IN
  IF IsPanic(w) THEN w ELSE Ok(from_u64(w.val, U256_BYTES))

convert_Ethers_U256_to_Reth_U64(u256) ==
  LET w == as_u64(u256) IN
  IF IsPanic(w) THEN w ELSE Ok(from_u64(w.val, U64_BYTES))

convert_Reth_U256_to_Ethers_U64(u256) ==
  LET e == u256
      w == as_u64(e) IN
  IF IsPanic(w) THEN w ELSE Ok(from_u64(w.val, U64_BYTES))

\* convert_Reth_U64_to_Ethers_U256 going through the byte array like the
\* to_le_bytes conversions: the array is read back as big-endian
convert_Reth_U64_to_Ethers_U256_via_bytes(u64) ==
  Ok(zero_extend(from_bytes_array(u64), U256_BYTES))

convert_Reth_U64_to_Ethers_U256(u64) ==
  LET u64t == as_u64(u64) IN
  IF IsPanic(u64t) THEN u64t ELSE Ok(from_u64(u64t.val, U256_BYTES))

----------------------------------------------------------------------------
(* Input values *)

\* the bytes a quantity is built from
ByteVals == {0, 1, 5, 15, 241, 255}

\* 64-bit values: 0, 5, 2^64 - 1, and values that are not byte palindromes
U64Vals ==
  { Zeros(8),
    <<5, 0, 0, 0, 0, 0, 0, 0>>,
    <<1, 0, 0, 0, 0, 0, 0, 0>>,
    <<0, 1, 0, 0, 0, 0, 0, 0>>,
    <<0, 0, 0, 0, 0, 0, 0, 1>>,
    <<241, 255, 255, 255, 255, 255, 255, 255>>,
    <<255, 255, 255, 255, 255, 255, 255, 255>> }

\* the upper 24 bytes of a 256-bit value: zero, 0x0F just above bit 64
\* (0xFFFFFFFFFFFFFFFF1 with the low word 0xFF..F1), and the top byte
HighVals ==
  { Zeros(24),
    <<15>> \o Zeros(23),
    <<1>> \o Zeros(23),
    Zeros(23) \o <<1>>,
    [i \in 1..24 |-> 255] }

U256Vals == { lo \o hi : lo \in U64Vals, hi \in HighVals }

U128Vals == { lo \o hi : lo \in U64Vals, hi \in {Zeros(8), <<1, 0, 0, 0, 0, 0, 0, 0>>} }

U8Vals == { <<b>> : b \in ByteVals }

----------------------------------------------------------------------------
(* Addresses, hashes and access lists *)

\* H160/H256::from_slice: panics unless the slice has the length of the type
from_slice(bytes, BYTES) ==
  IF Len(bytes) # BYTES THEN Panic("from_slice: length mismatch")
  ELSE Ok(bytes)

\* From between the fixed-byte types of the two libraries: a byte copy
fixed_into(bytes) == bytes

\* Iterator::map(f).collect(): rs holds the outcome of the closure on each
\* element in order; the first closure call that panics ends the expression
MapCollect(rs) ==
  LET bad == {i \in 1..Len(rs) : IsPanic(rs[i])} IN
  IF bad # {} THEN rs[CHOOSE i \in bad : \A j \in bad : i <= j]
  ELSE Ok([i \in 1..Len(rs) |-> rs[i].val])

\* the closure of the access list conversions: one item, address then keys
convert_access_list_item(item) ==
  LET a == from_slice(item.address, ADDRESS_BYTES)
      k == MapCollect([i \in 1..Len(item.storage_keys) |->
                        from_slice(item.storage_keys[i], H256_BYTES)]) IN
  IF IsPanic(a) THEN a
  ELSE IF IsPanic(k) THEN k
  ELSE Ok([address |-> a.val, storage_keys |-> k.val])

\* ethers_access_list_to_reth_access_list collecting each item's keys in
\* reverse order
ethers_access_list_to_reth_access_list_rev(access_list) ==
  MapCollect([i \in 1..Len(access_list) |->
                Ok([address |-> access_list[i].address,
                    storage_keys |-> Reverse(access_list[i].storage_keys)])])

ethers_access_list_to_reth_access_list(access_list) ==
  MapCollect([i \in 1..Len(access_list) |-> convert_access_list_item(access_list[i])])

reth_access_list_to_ethers_access_list(access_list) ==
  MapCollect([i \in 1..Len(access_list) |-> convert_access_list_item(access_list[i])])

opt_reth_access_list_to_ethers_access_list(opt_access_list) ==
  LET access_list == IF opt_access_list.some THEN opt_access_list.v ELSE <<>> IN
  MapCollect([i \in 1..Len(access_list) |-> convert_access_list_item(access_list[i])])

----------------------------------------------------------------------------
(* Block ids and filters *)

\* EthersBlockNumber::as_number: the number of Number(n), None for a tag
as_number(number) ==
  IF number.tag = "Number" THEN Some(number.n) ELSE None

ethers_block_id_to_reth_block_id(block_id) ==
  IF block_id.id = "Hash"
  THEN LET h == from_slice(block_id.hash, H256_BYTES) IN
       IF IsPanic(h) THEN h ELSE Ok([id |-> "Hash", hash |-> fixed_into(h.val)])
  ELSE LET n == Unwrap(as_number(block_id.number))
           w == IF IsPanic(n) THEN n ELSE as_u64(n.val) IN
       IF IsPanic(w) THEN w
       ELSE Ok([id |-> "Number", number |-> [tag |-> "Number", n |-> w.val]])

\* every arm returns Ok; the tag keeps its name, a number goes through as_u64
convert_block_number_to_block_number_or_tag(block) ==
  CASE block.tag = "Latest" -> Ok([tag |-> "Latest"])
    [] block.tag = "Finalized" -> Ok([tag |-> "Finalized"])
    [] block.tag = "Safe" -> Ok([tag |-> "Safe"])
    [] block.tag = "Earliest" -> Ok([tag |-> "Earliest"])
    [] block.tag = "Pending" -> Ok([tag |-> "Pending"])
    [] block.tag = "Number" ->
         LET w == as_u64(block.n) IN
         IF IsPanic(w) THEN w ELSE Ok([tag |-> "Number", n |-> w.val])

\* Result::ok
ok(r) == IF r.kind = "ok" THEN Some(r.val) ELSE None

\* ValueOrArray
Value(v) == [voa |-> "Value", value |-> v]

Array(a) == [voa |-> "Array", array |-> a]

option_convert_valueORarray(val) ==
  IF val.voa = "Value"
  THEN IF val.value.some THEN Value(Some(fixed_into(val.value.v))) ELSE Value(None)
  ELSE Array([i \in 1..Len(val.array) |->
                IF val.array[i].some THEN Some(fixed_into(val.array[i].v)) ELSE None])

convert_valueORarray(val) ==
  IF val.voa = "Value"
  THEN Value(fixed_into(val.value))
  ELSE Array([i \in 1..Len(val.array) |-> fixed_into(val.array[i])])

\* Vec IndexMut: new_topics[i] = v (i counts from 0) panics when i >= len
vec_set(vec, i, v) ==
  IF i >= Len(vec) THEN Panic("index out of bounds")
  ELSE Ok([vec EXCEPT ![i + 1] = v])

\* the for loop of convert_topics from position i on
RECURSIVE convert_topics_loop(_, _, _)
convert_topics_loop(topics, i, new_topics) ==
  IF i >= Len(topics) THEN Ok(new_topics)
  ELSE LET topic == topics[i + 1]
           v == IF topic.some THEN Some(option_convert_valueORarray(topic.v)) ELSE None
           w == vec_set(new_topics, i, v) IN
       IF IsPanic(w) THEN w ELSE convert_topics_loop(topics, i + 1, w.val)

\* Vec::new(), the loop, then try_into::<[_; 4]>().unwrap()
convert_topics(topics) ==
  LET new_topics == <<>>
      r == convert_topics_loop(topics, 0, new_topics) IN
  IF IsPanic(r) THEN r
  ELSE IF Len(r.val) # 4 THEN Panic("called Result::unwrap() on an Err value")
  ELSE r

\* one bound of a Range: unwrap, convert, .ok()
convert_range_bound(bound) ==
  LET b == Unwrap(bound)
      c == IF IsPanic(b) THEN b ELSE convert_block_number_to_block_number_or_tag(b.val) IN
  IF IsPanic(c) THEN c ELSE Ok(ok(c))

ethers_filter_to_reth_filter(filter) ==
  LET bo == filter.block_option
      block_option ==
        IF bo.opt = "AtBlockHash"
        THEN Ok([opt |-> "AtBlockHash", hash |-> fixed_into(bo.hash)])
        ELSE LET f == convert_range_bound(bo.from_block)
                 t == convert_range_bound(bo.to_block) IN
             IF IsPanic(f) THEN f
             ELSE IF IsPanic(t) THEN t
             ELSE Ok([opt |-> "Range", from_block |-> f.val, to_block |-> t.val])
      address ==
        IF filter.address.some THEN Some(convert_valueORarray(filter.address.v)) ELSE None
      topics == convert_topics(filter.topics) IN
  IF IsPanic(block_option) THEN block_option
  ELSE IF IsPanic(topics) THEN topics
  ELSE Ok([block_option |-> block_option.val, address |-> address, topics |-> topics.val])

----------------------------------------------------------------------------
(* Logs, receipts, transactions and call requests *)

\* todo!()
todo == Panic("not yet implemented")

\* the fields of a struct literal are evaluated in source order: fields is
\* the sequence of <<name, outcome>>; the first panic ends the call, and
\* otherwise the struct holds every field's value
Struct(fields) ==
  LET p == FirstPanic([i \in 1..Len(fields) |-> fields[i][2]]) IN
  IF p.some THEN p.v
  ELSE Ok([n \in { fields[i][1] : i \in 1..Len(fields) } |->
             fields[CHOOSE i \in 1..Len(fields) : fields[i][1] = n][2].val])

\* Option::map with a closure that cannot panic
OptInto(o) == IF o.some THEN Some(fixed_into(o.v)) ELSE None

\* the body shared by reth_rpc_log_to_ethers and Log::into_ethers
log_fields(log) ==
  << <<"address", Ok(fixed_into(log.address))>>,
     <<"topics", Ok([i \in 1..Len(log.topics) |-> fixed_into(log.topics[i])])>>,
     <<"data", Ok(log.data)>>,
     <<"block_hash", Ok(OptInto(log.block_hash))>>,
     <<"block_number", OptMap(log.block_number, le_bytes_into(log.block_number.v, U64_BYTES))>>,
     <<"transaction_hash", Ok(OptInto(log.transaction_hash))>>,
     <<"transaction_index",
       OptMap(log.transaction_index, le_bytes_into(log.transaction_index.v, U64_BYTES))>>,
     <<"log_index", Ok(log.log_index)>>,
     <<"transaction_log_index", todo>>,
     <<"log_type", todo>>,
     <<"removed", Ok(Some(log.removed))>> >>

\* impl ToEthers<EthersLog> for Log
Log_into_ethers(self) == Struct(log_fields(self))

reth_rpc_log_to_ethers(log) == Struct(log_fields(log))

reth_transaction_receipt_to_ethers(receipt) ==
  LET idx == Unwrap(receipt.transaction_index) IN
  Struct(<<
    <<"transaction_hash",
      LET h == Unwrap(receipt.transaction_hash) IN
      IF IsPanic(h) THEN h ELSE Ok(fixed_into(h.val))>>,
    <<"transaction_index", IF IsPanic(idx) THEN idx ELSE U256_into_EthersU64(idx.val)>>,
    <<"block_hash", Ok(OptInto(receipt.block_hash))>>,
    <<"block_number", OptMap(receipt.block_number, U256_into_EthersU64(receipt.block_number.v))>>,
    <<"from", Ok(fixed_into(receipt.from))>>,
    <<"to", Ok(OptInto(receipt.to))>>,
    <<"cumulative_gas_used", Ok(receipt.cumulative_gas_used)>>,
    <<"gas_used", Ok(receipt.gas_used)>>,
    <<"contract_address", Ok(OptInto(receipt.contract_address))>>,
    <<"logs", MapCollect([i \in 1..Len(receipt.logs) |-> Log_into_ethers(receipt.logs[i])])>>,
    <<"status",
      OptMap(receipt.status_code,
             LET w == as_u64(receipt.status_code.v) IN
             IF IsPanic(w) THEN w ELSE Ok(from_u64(w.val, U64_BYTES)))>>,
    <<"root", Ok(OptInto(receipt.state_root))>>,
    <<"logs_bloom", Ok(fixed_into(receipt.logs_bloom))>>,
    <<"transaction_type",
      LET t == U8_into_EthersU64(receipt.transaction_type) IN
      IF IsPanic(t) THEN t ELSE Ok(Some(t.val))>>,
    <<"effective_gas_price",
      Ok(Some(zero_extend(receipt.effective_gas_price, U256_BYTES)))>> >>)

reth_rpc_transaction_to_ethers(reth_tx) ==
  LET v == IF reth_tx.signature.some THEN U256_into_EthersU64(reth_tx.signature.v.v)
           ELSE Ok(Zeros(U64_BYTES))
      r == IF reth_tx.signature.some THEN Ok(reth_tx.signature.v.r)
           ELSE Ok(Zeros(U256_BYTES))
      s == IF reth_tx.signature.some THEN Ok(reth_tx.signature.v.s)
           ELSE Ok(Zeros(U256_BYTES))
      al == opt_reth_access_list_to_ethers_access_list(reth_tx.access_list) IN
  Struct(<<
    <<"v", v>>,
    <<"r", r>>,
    <<"s", s>>,
    <<"hash", Ok(fixed_into(reth_tx.hash))>>,
    <<"nonce", Ok(reth_tx.nonce)>>,
    <<"block_hash", Ok(OptInto(reth_tx.block_hash))>>,
    <<"block_number", OptMap(reth_tx.block_number, U256_into_EthersU64(reth_tx.block_number.v))>>,
    <<"transaction_index",
      OptMap(reth_tx.transaction_index, U256_into_EthersU64(reth_tx.transaction_index.v))>>,
    <<"from", Ok(fixed_into(reth_tx.from))>>,
    <<"to", Ok(OptInto(reth_tx.to))>>,
    <<"value", Ok(reth_tx.value)>>,
    <<"gas_price", OptMap(reth_tx.gas_price, U128_into_EthersU256(reth_tx.gas_price.v))>>,
    <<"gas", Ok(reth_tx.gas)>>,
    <<"input", Ok(reth_tx.input)>>,
    <<"transaction_type", Ok(reth_tx.transaction_type)>>,
    <<"access_list", IF IsPanic(al) THEN al ELSE Ok(Some(al.val))>>,
    <<"max_priority_fee_per_gas",
      OptMap(reth_tx.max_priority_fee_per_gas,
             U128_into_EthersU256(reth_tx.max_priority_fee_per_gas.v))>>,
    <<"max_fee_per_gas",
      OptMap(reth_tx.max_fee_per_gas, U128_into_EthersU256(reth_tx.max_fee_per_gas.v))>>,
    <<"chain_id", OptMap(reth_tx.chain_id, U64_into_EthersU256(reth_tx.chain_id.v))>> >>)

ethers_typed_transaction_to_reth_call_request(tx) ==
  Struct(<<
    <<"from", Ok(Some(fixed_into(tx.from)))>>,
    <<"to", Ok(OptInto(tx.to))>>,
    <<"gas_price", Ok(tx.gas_price)>>,
    <<"max_fee_per_gas", Ok(tx.max_fee_per_gas)>>,
    <<"max_priority_fee_per_gas", Ok(tx.max_priority_fee_per_gas)>>,
    <<"gas", Ok(Some(tx.gas))>>,
    <<"value", Ok(Some(tx.value))>>,
    <<"data", Ok(Some(tx.input))>>,
    <<"nonce", Ok(Some(tx.nonce))>>,
    <<"chain_id",
      OptMap(tx.chain_id,
             LET w == as_u64(tx.chain_id.v) IN
             IF IsPanic(w) THEN w ELSE Ok(from_u64(w.val, U64_BYTES)))>>,
    <<"access_list",
      OptMap(tx.access_list, ethers_access_list_to_reth_access_list(tx.access_list.v))>>,
    <<"transaction_type", Ok(tx.transaction_type)>> >>)

\* sequences over S of length at most n
SeqsUpTo(S, n) == UNION { [1..k -> S] : k \in 0..n }

MaxEntries == 2

MaxKeys == 2

AddrA == [i \in 1..20 |-> 170]

AddrB == [i \in 1..20 |-> i]

Addresses == {AddrA, AddrB}

Key1 == [i \in 1..32 |-> 1]

Key2 == [i \in 1..32 |-> 32 + i]

Hashes == {Key1, Key2}

AccessListItems ==
  { [address |-> a, storage_keys |-> ks] :
      a \in Addresses, ks \in SeqsUpTo(Hashes, MaxKeys) }

AccessLists == SeqsUpTo(AccessListItems, MaxEntries)

\* the optional access lists carried by transactions
OptAccessLists ==
  { None,
    Some(<<>>),
    Some(<<[address |-> AddrA, storage_keys |-> <<Key1, Key2>>]>>),
    Some(<<[address |-> AddrB, storage_keys |-> <<>>],
           [address |-> AddrA, storage_keys |-> <<Key2>>]>>) }

BlockTags == {"Latest", "Finalized", "Safe", "Earliest", "Pending"}

BlockNumbers ==
  { [tag |-> t] : t \in BlockTags } \cup
  { [tag |-> "Number", n |-> n] : n \in {Zeros(8), <<5, 0, 0, 0, 0, 0, 0, 0>>} }

OptBlockNumbers == {None} \cup { Some(b) : b \in BlockNumbers }

BlockIds ==
  { [id |-> "Hash", hash |-> h] : h \in Hashes } \cup
  { [id |-> "Number", number |-> b] : b \in BlockNumbers }

FilterBlockOptions ==
  { [opt |-> "AtBlockHash", hash |-> h] : h \in Hashes } \cup
  { [opt |-> "Range", from_block |-> f, to_block |-> t] :
      f \in OptBlockNumbers, t \in OptBlockNumbers }

AddressMatchers ==
  { None, Some(Value(AddrA)), Some(Value(AddrB)), Some(Array(<<>>)),
    Some(Array(<<AddrA>>)), Some(Array(<<AddrB, AddrA>>)) }

TopicMatchers ==
  { None, Some(Value(None)), Some(Value(Some(Key1))),
    Some(Array(<<Some(Key1), Some(Key2)>>)), Some(Array(<<None, Some(Key2)>>)) }

\* topics = [None, Some(set([t1, t2])), None, None]
TopicsExample == <<None, Some(Array(<<Some(Key1), Some(Key2)>>)), None, None>>

NoTopics == <<None, None, None, None>>

\* every block option and address matcher with two topic arrays, and every
\* topic array with two block options
Filters ==
  { [block_option |-> b, address |-> a, topics |-> t] :
      b \in FilterBlockOptions, a \in AddressMatchers, t \in {NoTopics, TopicsExample} }
  \cup
  { [block_option |-> b, address |-> Some(Value(AddrA)), topics |-> t] :
      b \in { [opt |-> "AtBlockHash", hash |-> Key1],
              [opt |-> "Range", from_block |-> Some([tag |-> "Latest"]),
               to_block |-> Some([tag |-> "Number", n |-> <<5, 0, 0, 0, 0, 0, 0, 0>>])] },
      t \in [1..4 -> TopicMatchers] }

Five64 == <<5, 0, 0, 0, 0, 0, 0, 0>>

One256 == <<1>> \o Zeros(31)

Zero256 == Zeros(32)

OptHashes == {None, Some(Key1)}

OptU256s == {None, Some(Zero256), Some(One256)}

Logs ==
  { [address |-> AddrA, topics |-> t, data |-> <<1, 2>>, block_hash |-> bh,
     block_number |-> bn, transaction_hash |-> th, transaction_index |-> ti,
     log_index |-> ti, removed |-> r] :
      t \in {<<>>, <<Key1>>, <<Key1, Key2, Key1, Key2>>}, bh \in OptHashes,
      bn \in OptU256s, th \in OptHashes, ti \in OptU256s, r \in BOOLEAN }

\* a log of a block that was reorganized out, with no topic and no linkage
RemovedLog ==
  [address |-> AddrA, topics |-> <<>>, data |-> <<1, 2>>, block_hash |-> None,
   block_number |-> None, transaction_hash |-> None, transaction_index |-> None,
   log_index |-> None, removed |-> TRUE]

Receipts ==
  { [transaction_hash |-> th, transaction_index |-> ti, block_hash |-> bh,
     block_number |-> bn, from |-> AddrA, to |-> Some(AddrB),
     cumulative_gas_used |-> One256, gas_used |-> Some(One256),
     contract_address |-> ca, logs |-> ls, status_code |-> sc, state_root |-> sr,
     logs_bloom |-> <<0, 1>>, transaction_type |-> <<2>>,
     effective_gas_price |-> Zeros(16)] :
      th \in OptHashes, ti \in OptU256s, bh \in OptHashes, bn \in OptU256s,
      ca \in {None, Some(AddrB)}, ls \in {<<>>, <<RemovedLog>>},
      sc \in {None, Some(Zeros(8)), Some(<<1>> \o Zeros(7))},
      sr \in {None, Some(Key2)} }

OptU128s == {None, Some(<<1>> \o Zeros(15))}

Signatures == {None, Some([r |-> One256, s |-> One256, v |-> <<27>> \o Zeros(31)])}

Transactions ==
  { [hash |-> Key1, nonce |-> Zero256, block_hash |-> bh, block_number |-> bn,
     transaction_index |-> ti, from |-> AddrA, to |-> Some(AddrB), value |-> One256,
     gas_price |-> gp, gas |-> One256, input |-> <<1, 2>>, signature |-> sig,
     chain_id |-> ci, access_list |-> al, transaction_type |-> None,
     max_priority_fee_per_gas |-> fee, max_fee_per_gas |-> fee] :
      bh \in OptHashes, bn \in {None, Some(One256)}, ti \in {None, Some(Zero256)},
      gp \in OptU128s, sig \in Signatures,
      ci \in {None, Some(Five64), Some([i \in 1..8 |-> 255])},
      al \in OptAccessLists, fee \in OptU128s }

TypedTransactions ==
  { [from |-> AddrA, to |-> to, gas_price |-> gp, max_fee_per_gas |-> None,
     max_priority_fee_per_gas |-> None, gas |-> One256, value |-> Zero256,
     input |-> <<1, 2>>, nonce |-> One256, chain_id |-> ci, access_list |-> al,
     transaction_type |-> ty] :
      to \in {None, Some(AddrB)}, gp \in {None, Some(One256)},
      ci \in {None, Some(Five64)}, al \in OptAccessLists,
      ty \in {None, Some(<<1>> \o Zeros(7))} }

----------------------------------------------------------------------------

Init ==
  /\ pc = "idle"
  /\ op = "none"
  /\ arg = None
  /\ res = Ok(None)

\* a call of the conversion called name on input x that ended as r
Call(name, x, r) ==
  /\ pc = "idle"
  /\ pc' = "done"
  /\ op' = name
  /\ arg' = x
  /\ res' = r

\* the caller drops the result; the layer keeps no state between calls
Return ==
  /\ pc = "done"
  /\ pc' = "idle"
  /\ op' = "none"
  /\ arg' = None
  /\ res' = Ok(None)

Do_convert_Ethers_U256_to_Reth_U64 ==
  \E q \in U256Vals :
    Call("convert_Ethers_U256_to_Reth_U64", q, convert_Ethers_U256_to_Reth_U64(q))

Do_convert_Reth_U256_to_Ethers_U64 ==
  \E q \in U256Vals :
    Call("convert_Reth_U256_to_Ethers_U64", q, convert_Reth_U256_to_Ethers_U64(q))

Do_convert_Reth_U64_to_Ethers_U256 ==
  \E q \in U64Vals :
    Call("convert_Reth_U64_to_Ethers_U256", q, convert_Reth_U64_to_Ethers_U256(q))

Do_U256_into_EthersU64 ==
  \E q \in U256Vals : Call("U256_into_EthersU64", q, U256_into_EthersU64(q))

Do_U8_into_EthersU64 ==
  \E q \in U8Vals : Call("U8_into_EthersU64", q, U8_into_EthersU64(q))

Do_U128_into_EthersU256 ==
  \E q \in U128Vals : Call("U128_into_EthersU256", q, U128_into_EthersU256(q))

Do_U64_into_EthersU256 ==
  \E q \in U64Vals : Call("U64_into_EthersU256", q, U64_into_EthersU256(q))

\* narrow(widen(Q)): the widened quantity is handed back to the narrowing
\* conversion; arg stays the original Q
Do_narrow_widened ==
  /\ pc = "done"
  /\ op = "convert_Reth_U64_to_Ethers_U256"
  /\ IsOk(res)
  /\ pc' = "done"
  /\ op' = "narrow_widened"
  /\ arg' = arg
  /\ res' = convert_Ethers_U256_to_Reth_U64(res.val)

Do_ethers_access_list_to_reth_access_list ==
  \E l \in AccessLists :
    Call("ethers_access_list_to_reth_access_list", l,
         ethers_access_list_to_reth_access_list(l))

Do_reth_access_list_to_ethers_access_list ==
  \E l \in AccessLists :
    Call("reth_access_list_to_ethers_access_list", l,
         reth_access_list_to_ethers_access_list(l))

\* reth_access_list_to_ethers_access_list(ethers_access_list_to_reth_access_list(L))
Do_access_list_back_to_ethers ==
  /\ pc = "done"
  /\ op = "ethers_access_list_to_reth_access_list"
  /\ IsOk(res)
  /\ pc' = "done"
  /\ op' = "access_list_back_to_ethers"
  /\ arg' = arg
  /\ res' = reth_access_list_to_ethers_access_list(res.val)

\* ethers_access_list_to_reth_access_list(reth_access_list_to_ethers_access_list(L))
Do_access_list_back_to_reth ==
  /\ pc = "done"
  /\ op = "reth_access_list_to_ethers_access_list"
  /\ IsOk(res)
  /\ pc' = "done"
  /\ op' = "access_list_back_to_reth"
  /\ arg' = arg
  /\ res' = ethers_access_list_to_reth_access_list(res.val)

Do_opt_reth_access_list_to_ethers_access_list ==
  \E o \in OptAccessLists \cup { Some(l) : l \in SeqsUpTo(AccessListItems, 1) } :
    Call("opt_reth_access_list_to_ethers_access_list", o,
         opt_reth_access_list_to_ethers_access_list(o))

Do_ethers_block_id_to_reth_block_id ==
  \E b \in BlockIds :
    Call("ethers_block_id_to_reth_block_id", b, ethers_block_id_to_reth_block_id(b))

Do_ethers_filter_to_reth_filter ==
  \E f \in Filters :
    Call("ethers_filter_to_reth_filter", f, ethers_filter_to_reth_filter(f))

Do_reth_rpc_log_to_ethers ==
  \E l \in Logs : Call("reth_rpc_log_to_ethers", l, reth_rpc_log_to_ethers(l))

Do_Log_into_ethers ==
  \E l \in Logs : Call("Log_into_ethers", l, Log_into_ethers(l))

Do_reth_transaction_receipt_to_ethers ==
  \E r \in Receipts :
    Call("reth_transaction_receipt_to_ethers", r, reth_transaction_receipt_to_ethers(r))

Do_reth_rpc_transaction_to_ethers ==
  \E t \in Transactions :
    Call("reth_rpc_transaction_to_ethers", t, reth_rpc_transaction_to_ethers(t))

Do_ethers_typed_transaction_to_reth_call_request ==
  \E t \in TypedTransactions :
    Call("ethers_typed_transaction_to_reth_call_request", t,
         ethers_typed_transaction_to_reth_call_request(t))

Next ==
  \/ Do_convert_Ethers_U256_to_Reth_U64
  \/ Do_convert_Reth_U256_to_Ethers_U64
  \/ Do_convert_Reth_U64_to_Ethers_U256
  \/ Do_U256_into_EthersU64
  \/ Do_U8_into_EthersU64
  \/ Do_U128_into_EthersU256
  \/ Do_U64_into_EthersU256
  \/ Do_narrow_widened
  \/ Do_ethers_access_list_to_reth_access_list
  \/ Do_reth_access_list_to_ethers_access_list
  \/ Do_access_list_back_to_ethers
  \/ Do_access_list_back_to_reth
  \/ Do_opt_reth_access_list_to_ethers_access_list
  \/ Do_ethers_block_id_to_reth_block_id
  \/ Do_ethers_filter_to_reth_filter
  \/ Do_reth_rpc_log_to_ethers
  \/ Do_Log_into_ethers
  \/ Do_reth_transaction_receipt_to_ethers
  \/ Do_reth_rpc_transaction_to_ethers
  \/ Do_ethers_typed_transaction_to_reth_call_request
  \/ Return

Spec == Init /\ [][Next]_vars

----------------------------------------------------------------------------
(* Properties *)

Done(name) == pc = "done" /\ op = name

\* two optional quantities, of any widths, are both absent or hold the same number
OptSame(a, b) == a.some = b.some /\ (a.some => SameValue(a.v, b.v))

\* C1: narrowing a 256-bit quantity to 64 bits returns exactly Q when
\* Q <= 2^64 - 1 and returns the Overflow error when Q > 2^64 - 1, in
\* convert_Ethers_U256_to_Reth_U64, convert_Reth_U256_to_Ethers_U64 and the
\* U256 -> EthersU64 into_ethers; it never wraps and never panics.
C1_NarrowOverflowOrExact ==
  (pc = "done" /\ op \in { "convert_Ethers_U256_to_Reth_U64",
                           "convert_Reth_U256_to_Ethers_U64",
                           "U256_into_EthersU64" })
    => IF FitsIn(arg, U64_BYTES)
       THEN res = Ok(SubSeq(arg, 1, U64_BYTES))
       ELSE res = Err("Overflow")

\* C2: widening always succeeds and preserves the numeric value, for
\* U8 -> EthersU64, U128 -> EthersU256, U64 -> EthersU256 and
\* convert_Reth_U64_to_Ethers_U256; no value comes out byte-reversed.
C2_WidenPreservesValue ==
  /\ (pc = "done" /\ op \in { "U128_into_EthersU256", "U64_into_EthersU256",
                              "convert_Reth_U64_to_Ethers_U256" })
       => IsOk(res) /\ Len(res.val) = U256_BYTES /\ SameValue(res.val, arg)
  /\ Done("U8_into_EthersU64")
       => IsOk(res) /\ Len(res.val) = U64_BYTES /\ SameValue(res.val, arg)

\* C3: for every 64-bit quantity Q, 0 and 2^64 - 1 included,
\* convert_Ethers_U256_to_Reth_U64(convert_Reth_U64_to_Ethers_U256(Q)) = Q.
C3_NarrowWidenIdentity == Done("narrow_widened") => res = Ok(arg)

\* the round trip ran on the maximum 2^64 - 1 and returned a value
C3_Witness ==
  /\ Done("narrow_widened")
  /\ arg = [i \in 1..8 |-> 255]
  /\ IsOk(res)

\* C4: no conversion terminates the caller: the receipt, block id and log
\* conversions end by returning a value or an error, never in a panic.
C4_NoPanic ==
  (pc = "done" /\ op \in { "reth_transaction_receipt_to_ethers",
                           "ethers_block_id_to_reth_block_id",
                           "reth_rpc_log_to_ethers", "Log_into_ethers" })
    => res.kind \in {"ok", "err"}

\* C5: ethers_filter_to_reth_filter keeps each bound of a Range as it is
\* (absent stays absent, a number or tag stays that number or tag; every
\* bound of the inputs is convertible) and keeps AtBlockHash(h).
C5_RangeBoundsKept ==
  Done("ethers_filter_to_reth_filter")
    => IsOk(res) /\ res.val.block_option = arg.block_option

\* C6: ethers_filter_to_reth_filter returns the address matcher and the four
\* topic matchers with the shape, the elements and the positions of the input.
C6_MatchersKept ==
  Done("ethers_filter_to_reth_filter")
    => /\ IsOk(res)
       /\ res.val.address = arg.address
       /\ Len(res.val.topics) = 4
       /\ res.val.topics = arg.topics

\* C7: reth_transaction_receipt_to_ethers succeeds only when exactly one of
\* status_code and state_root is present, and then outputs exactly that one;
\* with both or neither present it fails with AmbiguousReceiptState.
C7_StatusRootExclusive ==
  Done("reth_transaction_receipt_to_ethers")
    => IF arg.status_code.some # arg.state_root.some
       THEN IsOk(res) => /\ OptSame(res.val.status, arg.status_code)
                         /\ res.val.root = arg.state_root
       ELSE res = Err("AmbiguousReceiptState")

\* C8: an access list converted to the other side and back is the access
\* list it was, in both orders of the two conversions: same entries in the
\* same order, same address and same storage keys in the same order.
C8_AccessListRoundTrip ==
  (pc = "done" /\ op \in {"access_list_back_to_ethers", "access_list_back_to_reth"})
    => res = Ok(arg)

\* a round trip of a list of two entries, the first with two different keys
C8_Witness ==
  /\ Done("access_list_back_to_ethers")
  /\ Len(arg) = 2
  /\ Len(arg[1].storage_keys) = 2
  /\ arg[1].storage_keys[1] # arg[1].storage_keys[2]
  /\ IsOk(res)

\* the entry-for-entry conversion of an optional access list, absent as empty
ExpectedAccessList(o) == IF o.some THEN o.v ELSE <<>>

\* C9: in opt_reth_access_list_to_ethers_access_list,
\* reth_rpc_transaction_to_ethers and
\* ethers_typed_transaction_to_reth_call_request the output's access list is
\* present: empty when the input has none, the converted list otherwise.
C9_AbsentAccessListIsEmpty ==
  /\ (Done("opt_reth_access_list_to_ethers_access_list") /\ IsOk(res))
       => res.val = ExpectedAccessList(arg)
  /\ (pc = "done" /\ IsOk(res)
        /\ op \in { "reth_rpc_transaction_to_ethers",
                    "ethers_typed_transaction_to_reth_call_request" })
       => res.val.access_list = Some(ExpectedAccessList(arg.access_list))

\* C10: the transaction, receipt and log conversions return an output where
\* block_hash, block_number, transaction_index, contract_address and
\* chain_id are absent exactly when absent in the input and otherwise hold
\* the input's value.
C10_UnminedFieldsStayAbsent ==
  /\ Done("reth_rpc_transaction_to_ethers")
       => /\ IsOk(res)
          /\ res.val.block_hash = arg.block_hash
          /\ OptSame(res.val.block_number, arg.block_number)
          /\ OptSame(res.val.transaction_index, arg.transaction_index)
          /\ OptSame(res.val.chain_id, arg.chain_id)
  /\ Done("reth_transaction_receipt_to_ethers")
       => /\ IsOk(res)
          /\ res.val.block_hash = arg.block_hash
          /\ OptSame(res.val.block_number, arg.block_number)
          /\ OptSame(Some(res.val.transaction_index), arg.transaction_index)
          /\ res.val.contract_address = arg.contract_address
  /\ (pc = "done" /\ op \in {"reth_rpc_log_to_ethers", "Log_into_ethers"})
       => /\ IsOk(res)
          /\ res.val.block_hash = arg.block_hash
          /\ OptSame(res.val.block_number, arg.block_number)
          /\ OptSame(res.val.transaction_index, arg.transaction_index)

====
